---- MODULE Spec2Model ----
(***************************************************************************)
(* Model of nightclub.py: one run of main().  The run parses its command   *)
(* line, checks the Bandsintown credential, fetches every artist from      *)
(* Bandsintown and (optionally) from Ticketmaster, filters the records by  *)
(* venue name, sorts them by parsed date and writes the CSV.               *)
(*                                                                         *)
(* Venue names are tuples of Unicode code points, so that the regular       *)
(* expression of looks_like_club is computed character by character.       *)
(* A date string is a record [body, t, sfx]: body is "none" (JSON null /   *)
(* key absent), "junk" (text that datetime.fromisoformat rejects) or "iso" *)
(* (a local date-time, abstracted to the ordinal t, followed by the zone   *)
(* suffix sfx: nothing, "Z" or "+01:00").  Ordinals count hours.           *)
(* The fields city, lineup and url of a record are carried through the     *)
(* program untouched and are left out.                                     *)
(***************************************************************************)
EXTENDS Integers, Sequences, FiniteSets, TLC

\* ---------------------------------------------------------------- bounds
MaxArtists == 2
MaxEvents == 2
MaxRows == 2
MaxTime == 1
MaxTotalPages == 3

\* ---------------------------------------------------------------- strings
\* A character is its Unicode code point and a string a tuple of code points.
\* None is a tuple no string equals.
None == <<-1>>

\* \w of a str pattern: str.isalnum() or "_", as inclusive code point ranges
\* (Unicode 14.0.0, the database of the interpreter's re module)
WordRanges == <<
  <<48,57>>, <<65,90>>, <<95,95>>, <<97,122>>, <<170,170>>, <<178,179>>,
  <<181,181>>, <<185,186>>, <<188,190>>, <<192,214>>, <<216,246>>, <<248,705>>,
  <<710,721>>, <<736,740>>, <<748,748>>, <<750,750>>, <<880,884>>, <<886,887>>,
  <<890,893>>, <<895,895>>, <<902,902>>, <<904,906>>, <<908,908>>, <<910,929>>,
  <<931,1013>>, <<1015,1153>>, <<1162,1327>>, <<1329,1366>>, <<1369,1369>>, <<1376,1416>>,
  <<1488,1514>>, <<1519,1522>>, <<1568,1610>>, <<1632,1641>>, <<1646,1647>>, <<1649,1747>>,
  <<1749,1749>>, <<1765,1766>>, <<1774,1788>>, <<1791,1791>>, <<1808,1808>>, <<1810,1839>>,
  <<1869,1957>>, <<1969,1969>>, <<1984,2026>>, <<2036,2037>>, <<2042,2042>>, <<2048,2069>>,
  <<2074,2074>>, <<2084,2084>>, <<2088,2088>>, <<2112,2136>>, <<2144,2154>>, <<2160,2183>>,
  <<2185,2190>>, <<2208,2249>>, <<2308,2361>>, <<2365,2365>>, <<2384,2384>>, <<2392,2401>>,
  <<2406,2415>>, <<2417,2432>>, <<2437,2444>>, <<2447,2448>>, <<2451,2472>>, <<2474,2480>>,
  <<2482,2482>>, <<2486,2489>>, <<2493,2493>>, <<2510,2510>>, <<2524,2525>>, <<2527,2529>>,
  <<2534,2545>>, <<2548,2553>>, <<2556,2556>>, <<2565,2570>>, <<2575,2576>>, <<2579,2600>>,
  <<2602,2608>>, <<2610,2611>>, <<2613,2614>>, <<2616,2617>>, <<2649,2652>>, <<2654,2654>>,
  <<2662,2671>>, <<2674,2676>>, <<2693,2701>>, <<2703,2705>>, <<2707,2728>>, <<2730,2736>>,
  <<2738,2739>>, <<2741,2745>>, <<2749,2749>>, <<2768,2768>>, <<2784,2785>>, <<2790,2799>>,
  <<2809,2809>>, <<2821,2828>>, <<2831,2832>>, <<2835,2856>>, <<2858,2864>>, <<2866,2867>>,
  <<2869,2873>>, <<2877,2877>>, <<2908,2909>>, <<2911,2913>>, <<2918,2927>>, <<2929,2935>>,
  <<2947,2947>>, <<2949,2954>>, <<2958,2960>>, <<2962,2965>>, <<2969,2970>>, <<2972,2972>>,
  <<2974,2975>>, <<2979,2980>>, <<2984,2986>>, <<2990,3001>>, <<3024,3024>>, <<3046,3058>>,
  <<3077,3084>>, <<3086,3088>>, <<3090,3112>>, <<3114,3129>>, <<3133,3133>>, <<3160,3162>>,
  <<3165,3165>>, <<3168,3169>>, <<3174,3183>>, <<3192,3198>>, <<3200,3200>>, <<3205,3212>>,
  <<3214,3216>>, <<3218,3240>>, <<3242,3251>>, <<3253,3257>>, <<3261,3261>>, <<3293,3294>>,
  <<3296,3297>>, <<3302,3311>>, <<3313,3314>>, <<3332,3340>>, <<3342,3344>>, <<3346,3386>>,
  <<3389,3389>>, <<3406,3406>>, <<3412,3414>>, <<3416,3425>>, <<3430,3448>>, <<3450,3455>>,
  <<3461,3478>>, <<3482,3505>>, <<3507,3515>>, <<3517,3517>>, <<3520,3526>>, <<3558,3567>>,
  <<3585,3632>>, <<3634,3635>>, <<3648,3654>>, <<3664,3673>>, <<3713,3714>>, <<3716,3716>>,
  <<3718,3722>>, <<3724,3747>>, <<3749,3749>>, <<3751,3760>>, <<3762,3763>>, <<3773,3773>>,
  <<3776,3780>>, <<3782,3782>>, <<3792,3801>>, <<3804,3807>>, <<3840,3840>>, <<3872,3891>>,
  <<3904,3911>>, <<3913,3948>>, <<3976,3980>>, <<4096,4138>>, <<4159,4169>>, <<4176,4181>>,
  <<4186,4189>>, <<4193,4193>>, <<4197,4198>>, <<4206,4208>>, <<4213,4225>>, <<4238,4238>>,
  <<4240,4249>>, <<4256,4293>>, <<4295,4295>>, <<4301,4301>>, <<4304,4346>>, <<4348,4680>>,
  <<4682,4685>>, <<4688,4694>>, <<4696,4696>>, <<4698,4701>>, <<4704,4744>>, <<4746,4749>>,
  <<4752,4784>>, <<4786,4789>>, <<4792,4798>>, <<4800,4800>>, <<4802,4805>>, <<4808,4822>>,
  <<4824,4880>>, <<4882,4885>>, <<4888,4954>>, <<4969,4988>>, <<4992,5007>>, <<5024,5109>>,
  <<5112,5117>>, <<5121,5740>>, <<5743,5759>>, <<5761,5786>>, <<5792,5866>>, <<5870,5880>>,
  <<5888,5905>>, <<5919,5937>>, <<5952,5969>>, <<5984,5996>>, <<5998,6000>>, <<6016,6067>>,
  <<6103,6103>>, <<6108,6108>>, <<6112,6121>>, <<6128,6137>>, <<6160,6169>>, <<6176,6264>>,
  <<6272,6276>>, <<6279,6312>>, <<6314,6314>>, <<6320,6389>>, <<6400,6430>>, <<6470,6509>>,
  <<6512,6516>>, <<6528,6571>>, <<6576,6601>>, <<6608,6618>>, <<6656,6678>>, <<6688,6740>>,
  <<6784,6793>>, <<6800,6809>>, <<6823,6823>>, <<6917,6963>>, <<6981,6988>>, <<6992,7001>>,
  <<7043,7072>>, <<7086,7141>>, <<7168,7203>>, <<7232,7241>>, <<7245,7293>>, <<7296,7304>>,
  <<7312,7354>>, <<7357,7359>>, <<7401,7404>>, <<7406,7411>>, <<7413,7414>>, <<7418,7418>>,
  <<7424,7615>>, <<7680,7957>>, <<7960,7965>>, <<7968,8005>>, <<8008,8013>>, <<8016,8023>>,
  <<8025,8025>>, <<8027,8027>>, <<8029,8029>>, <<8031,8061>>, <<8064,8116>>, <<8118,8124>>,
  <<8126,8126>>, <<8130,8132>>, <<8134,8140>>, <<8144,8147>>, <<8150,8155>>, <<8160,8172>>,
  <<8178,8180>>, <<8182,8188>>, <<8304,8305>>, <<8308,8313>>, <<8319,8329>>, <<8336,8348>>,
  <<8450,8450>>, <<8455,8455>>, <<8458,8467>>, <<8469,8469>>, <<8473,8477>>, <<8484,8484>>,
  <<8486,8486>>, <<8488,8488>>, <<8490,8493>>, <<8495,8505>>, <<8508,8511>>, <<8517,8521>>,
  <<8526,8526>>, <<8528,8585>>, <<9312,9371>>, <<9450,9471>>, <<10102,10131>>, <<11264,11492>>,
  <<11499,11502>>, <<11506,11507>>, <<11517,11517>>, <<11520,11557>>, <<11559,11559>>, <<11565,11565>>,
  <<11568,11623>>, <<11631,11631>>, <<11648,11670>>, <<11680,11686>>, <<11688,11694>>, <<11696,11702>>,
  <<11704,11710>>, <<11712,11718>>, <<11720,11726>>, <<11728,11734>>, <<11736,11742>>, <<11823,11823>>,
  <<12293,12295>>, <<12321,12329>>, <<12337,12341>>, <<12344,12348>>, <<12353,12438>>, <<12445,12447>>,
  <<12449,12538>>, <<12540,12543>>, <<12549,12591>>, <<12593,12686>>, <<12690,12693>>, <<12704,12735>>,
  <<12784,12799>>, <<12832,12841>>, <<12872,12879>>, <<12881,12895>>, <<12928,12937>>, <<12977,12991>>,
  <<13312,19903>>, <<19968,42124>>, <<42192,42237>>, <<42240,42508>>, <<42512,42539>>, <<42560,42606>>,
  <<42623,42653>>, <<42656,42735>>, <<42775,42783>>, <<42786,42888>>, <<42891,42954>>, <<42960,42961>>,
  <<42963,42963>>, <<42965,42969>>, <<42994,43009>>, <<43011,43013>>, <<43015,43018>>, <<43020,43042>>,
  <<43056,43061>>, <<43072,43123>>, <<43138,43187>>, <<43216,43225>>, <<43250,43255>>, <<43259,43259>>,
  <<43261,43262>>, <<43264,43301>>, <<43312,43334>>, <<43360,43388>>, <<43396,43442>>, <<43471,43481>>,
  <<43488,43492>>, <<43494,43518>>, <<43520,43560>>, <<43584,43586>>, <<43588,43595>>, <<43600,43609>>,
  <<43616,43638>>, <<43642,43642>>, <<43646,43695>>, <<43697,43697>>, <<43701,43702>>, <<43705,43709>>,
  <<43712,43712>>, <<43714,43714>>, <<43739,43741>>, <<43744,43754>>, <<43762,43764>>, <<43777,43782>>,
  <<43785,43790>>, <<43793,43798>>, <<43808,43814>>, <<43816,43822>>, <<43824,43866>>, <<43868,43881>>,
  <<43888,44002>>, <<44016,44025>>, <<44032,55203>>, <<55216,55238>>, <<55243,55291>>, <<63744,64109>>,
  <<64112,64217>>, <<64256,64262>>, <<64275,64279>>, <<64285,64285>>, <<64287,64296>>, <<64298,64310>>,
  <<64312,64316>>, <<64318,64318>>, <<64320,64321>>, <<64323,64324>>, <<64326,64433>>, <<64467,64829>>,
  <<64848,64911>>, <<64914,64967>>, <<65008,65019>>, <<65136,65140>>, <<65142,65276>>, <<65296,65305>>,
  <<65313,65338>>, <<65345,65370>>, <<65382,65470>>, <<65474,65479>>, <<65482,65487>>, <<65490,65495>>,
  <<65498,65500>>, <<65536,65547>>, <<65549,65574>>, <<65576,65594>>, <<65596,65597>>, <<65599,65613>>,
  <<65616,65629>>, <<65664,65786>>, <<65799,65843>>, <<65856,65912>>, <<65930,65931>>, <<66176,66204>>,
  <<66208,66256>>, <<66273,66299>>, <<66304,66339>>, <<66349,66378>>, <<66384,66421>>, <<66432,66461>>,
  <<66464,66499>>, <<66504,66511>>, <<66513,66517>>, <<66560,66717>>, <<66720,66729>>, <<66736,66771>>,
  <<66776,66811>>, <<66816,66855>>, <<66864,66915>>, <<66928,66938>>, <<66940,66954>>, <<66956,66962>>,
  <<66964,66965>>, <<66967,66977>>, <<66979,66993>>, <<66995,67001>>, <<67003,67004>>, <<67072,67382>>,
  <<67392,67413>>, <<67424,67431>>, <<67456,67461>>, <<67463,67504>>, <<67506,67514>>, <<67584,67589>>,
  <<67592,67592>>, <<67594,67637>>, <<67639,67640>>, <<67644,67644>>, <<67647,67669>>, <<67672,67702>>,
  <<67705,67742>>, <<67751,67759>>, <<67808,67826>>, <<67828,67829>>, <<67835,67867>>, <<67872,67897>>,
  <<67968,68023>>, <<68028,68047>>, <<68050,68096>>, <<68112,68115>>, <<68117,68119>>, <<68121,68149>>,
  <<68160,68168>>, <<68192,68222>>, <<68224,68255>>, <<68288,68295>>, <<68297,68324>>, <<68331,68335>>,
  <<68352,68405>>, <<68416,68437>>, <<68440,68466>>, <<68472,68497>>, <<68521,68527>>, <<68608,68680>>,
  <<68736,68786>>, <<68800,68850>>, <<68858,68899>>, <<68912,68921>>, <<69216,69246>>, <<69248,69289>>,
  <<69296,69297>>, <<69376,69415>>, <<69424,69445>>, <<69457,69460>>, <<69488,69505>>, <<69552,69579>>,
  <<69600,69622>>, <<69635,69687>>, <<69714,69743>>, <<69745,69746>>, <<69749,69749>>, <<69763,69807>>,
  <<69840,69864>>, <<69872,69881>>, <<69891,69926>>, <<69942,69951>>, <<69956,69956>>, <<69959,69959>>,
  <<69968,70002>>, <<70006,70006>>, <<70019,70066>>, <<70081,70084>>, <<70096,70106>>, <<70108,70108>>,
  <<70113,70132>>, <<70144,70161>>, <<70163,70187>>, <<70272,70278>>, <<70280,70280>>, <<70282,70285>>,
  <<70287,70301>>, <<70303,70312>>, <<70320,70366>>, <<70384,70393>>, <<70405,70412>>, <<70415,70416>>,
  <<70419,70440>>, <<70442,70448>>, <<70450,70451>>, <<70453,70457>>, <<70461,70461>>, <<70480,70480>>,
  <<70493,70497>>, <<70656,70708>>, <<70727,70730>>, <<70736,70745>>, <<70751,70753>>, <<70784,70831>>,
  <<70852,70853>>, <<70855,70855>>, <<70864,70873>>, <<71040,71086>>, <<71128,71131>>, <<71168,71215>>,
  <<71236,71236>>, <<71248,71257>>, <<71296,71338>>, <<71352,71352>>, <<71360,71369>>, <<71424,71450>>,
  <<71472,71483>>, <<71488,71494>>, <<71680,71723>>, <<71840,71922>>, <<71935,71942>>, <<71945,71945>>,
  <<71948,71955>>, <<71957,71958>>, <<71960,71983>>, <<71999,71999>>, <<72001,72001>>, <<72016,72025>>,
  <<72096,72103>>, <<72106,72144>>, <<72161,72161>>, <<72163,72163>>, <<72192,72192>>, <<72203,72242>>,
  <<72250,72250>>, <<72272,72272>>, <<72284,72329>>, <<72349,72349>>, <<72368,72440>>, <<72704,72712>>,
  <<72714,72750>>, <<72768,72768>>, <<72784,72812>>, <<72818,72847>>, <<72960,72966>>, <<72968,72969>>,
  <<72971,73008>>, <<73030,73030>>, <<73040,73049>>, <<73056,73061>>, <<73063,73064>>, <<73066,73097>>,
  <<73112,73112>>, <<73120,73129>>, <<73440,73458>>, <<73648,73648>>, <<73664,73684>>, <<73728,74649>>,
  <<74752,74862>>, <<74880,75075>>, <<77712,77808>>, <<77824,78894>>, <<82944,83526>>, <<92160,92728>>,
  <<92736,92766>>, <<92768,92777>>, <<92784,92862>>, <<92864,92873>>, <<92880,92909>>, <<92928,92975>>,
  <<92992,92995>>, <<93008,93017>>, <<93019,93025>>, <<93027,93047>>, <<93053,93071>>, <<93760,93846>>,
  <<93952,94026>>, <<94032,94032>>, <<94099,94111>>, <<94176,94177>>, <<94179,94179>>, <<94208,100343>>,
  <<100352,101589>>, <<101632,101640>>, <<110576,110579>>, <<110581,110587>>, <<110589,110590>>, <<110592,110882>>,
  <<110928,110930>>, <<110948,110951>>, <<110960,111355>>, <<113664,113770>>, <<113776,113788>>, <<113792,113800>>,
  <<113808,113817>>, <<119520,119539>>, <<119648,119672>>, <<119808,119892>>, <<119894,119964>>, <<119966,119967>>,
  <<119970,119970>>, <<119973,119974>>, <<119977,119980>>, <<119982,119993>>, <<119995,119995>>, <<119997,120003>>,
  <<120005,120069>>, <<120071,120074>>, <<120077,120084>>, <<120086,120092>>, <<120094,120121>>, <<120123,120126>>,
  <<120128,120132>>, <<120134,120134>>, <<120138,120144>>, <<120146,120485>>, <<120488,120512>>, <<120514,120538>>,
  <<120540,120570>>, <<120572,120596>>, <<120598,120628>>, <<120630,120654>>, <<120656,120686>>, <<120688,120712>>,
  <<120714,120744>>, <<120746,120770>>, <<120772,120779>>, <<120782,120831>>, <<122624,122654>>, <<123136,123180>>,
  <<123191,123197>>, <<123200,123209>>, <<123214,123214>>, <<123536,123565>>, <<123584,123627>>, <<123632,123641>>,
  <<124896,124902>>, <<124904,124907>>, <<124909,124910>>, <<124912,124926>>, <<124928,125124>>, <<125127,125135>>,
  <<125184,125251>>, <<125259,125259>>, <<125264,125273>>, <<126065,126123>>, <<126125,126127>>, <<126129,126132>>,
  <<126209,126253>>, <<126255,126269>>, <<126464,126467>>, <<126469,126495>>, <<126497,126498>>, <<126500,126500>>,
  <<126503,126503>>, <<126505,126514>>, <<126516,126519>>, <<126521,126521>>, <<126523,126523>>, <<126530,126530>>,
  <<126535,126535>>, <<126537,126537>>, <<126539,126539>>, <<126541,126543>>, <<126545,126546>>, <<126548,126548>>,
  <<126551,126551>>, <<126553,126553>>, <<126555,126555>>, <<126557,126557>>, <<126559,126559>>, <<126561,126562>>,
  <<126564,126564>>, <<126567,126570>>, <<126572,126578>>, <<126580,126583>>, <<126585,126588>>, <<126590,126590>>,
  <<126592,126601>>, <<126603,126619>>, <<126625,126627>>, <<126629,126633>>, <<126635,126651>>, <<127232,127244>>,
  <<130032,130041>>, <<131072,173791>>, <<173824,177976>>, <<177984,178205>>, <<178208,183969>>, <<183984,191456>>,
  <<194560,195101>>, <<196608,201546>> >>

IsWordChar(c) == \E n \in DOMAIN WordRanges : WordRanges[n][1] <= c /\ c <= WordRanges[n][2]

\* re.IGNORECASE of a str pattern, for a pattern of ASCII letters: the letter a
\* character is compared as.  A-Z fold to a-z; U+0130 and U+0131 are matched by
\* "i", U+017F by "s" and U+212A by "k"; every other character only matches itself.
Lower(c) ==
  IF c >= 65 /\ c <= 90 THEN c + 32
  ELSE IF c = 304 \/ c = 305 THEN 105
  ELSE IF c = 383 THEN 115
  ELSE IF c = 8490 THEN 107
  ELSE c

\* \b between s[p-1] and s[p] (p in 1..Len(s)+1): exactly one side is a word character
WordBoundary(s, p) ==
  LET before == p > 1 /\ IsWordChar(s[p - 1])
      after  == p <= Len(s) /\ IsWordChar(s[p])
  IN  before # after

\* the words of CLUB_HINTS, in order: club, nightclub, discotheque, warehouse, lounge, room, bar, side room, terrace, basement
CLUB_HINTS == <<
  <<99,108,117,98>>,
  <<110,105,103,104,116,99,108,117,98>>,
  <<100,105,115,99,111,116,104,101,113,117,101>>,
  <<119,97,114,101,104,111,117,115,101>>,
  <<108,111,117,110,103,101>>,
  <<114,111,111,109>>,
  <<98,97,114>>,
  <<115,105,100,101,32,114,111,111,109>>,
  <<116,101,114,114,97,99,101>>,
  <<98,97,115,101,109,101,110,116>> >>

\* \bhint\b matches s at position p
HintMatchesAt(h, s, p) ==
  /\ p + Len(h) - 1 <= Len(s)
  /\ \A j \in 1..Len(h) : Lower(s[p + j - 1]) = h[j]
  /\ WordBoundary(s, p)
  /\ WordBoundary(s, p + Len(h))

\* CLUB_REGEX.search(s)
CLUB_REGEX_search(s) ==
  \E n \in DOMAIN CLUB_HINTS : \E p \in 1..Len(s) : HintMatchesAt(CLUB_HINTS[n], s, p)

\* x or ""
OrEmpty(x) == IF x = None THEN <<>> ELSE x

looks_like_club(venue_name) == CLUB_REGEX_search(OrEmpty(venue_name))

\* ---------------------------------------------------------------- dates
Suffixes == {"", "Z", "+01:00"}

NoneDate == [body |-> "none", t |-> 0, sfx |-> ""]
JunkDate == [body |-> "junk", t |-> 0, sfx |-> ""]
EmptyDate == [body |-> "empty", t |-> 0, sfx |-> ""]
IsoDates == {[body |-> "iso", t |-> t, sfx |-> x] : t \in 0..MaxTime, x \in Suffixes}

\* the date values an upstream item can carry
Dates == {NoneDate, JunkDate} \cup IsoDates

\* x.get("date") or ""
DateOrEmpty(d) == IF d.body = "none" THEN EmptyDate ELSE d

\* .replace("Z", "")
ReplaceZ(d) == IF d.sfx = "Z" THEN [d EXCEPT !.sfx = ""] ELSE d

\* hours east of UTC of a zone suffix
OffsetOf(x) == IF x = "+01:00" THEN 1 ELSE 0

\* datetime.max: the largest ordinal; "9999-12-31T23:59:59.999999" parses to it
DatetimeMax == [aware |-> FALSE, t |-> MaxTime, off |-> 0]

\* datetime.fromisoformat raises ValueError
FromIsoFormatRaises(d) == d.body # "iso" \/ d.sfx \notin {"", "+01:00"}

\* datetime.fromisoformat: naive without a suffix, aware with a UTC offset
FromIsoFormat(d) == [aware |-> d.sfx # "", t |-> d.t, off |-> OffsetOf(d.sfx)]

norm_dt(x) ==
  LET txt == ReplaceZ(DateOrEmpty(x.date))
  IN  IF FromIsoFormatRaises(txt) THEN DatetimeMax ELSE FromIsoFormat(txt)

\* datetime.__lt__ raises TypeError: offset-naive against offset-aware
CompareRaises(a, b) == a.aware # b.aware

\* the instant a datetime is compared by (UTC for aware ones)
Instant(a) == a.t - a.off

DatetimeLess(a, b) == Instant(a) < Instant(b)

\* list.sort compares keys of the list; with both kinds present one comparison raises
SortRaises(lst) ==
  \E a \in DOMAIN lst : \E b \in DOMAIN lst : CompareRaises(norm_dt(lst[a]), norm_dt(lst[b]))

\* a sort that leaves the list in append order
InsertAtEnd(sorted, r) == Append(sorted, r)

\* an unstable insertion: r goes before the elements of equal key
InsertBeforeEqual(sorted, r) ==
  LET later == {j \in DOMAIN sorted : ~DatetimeLess(norm_dt(sorted[j]), norm_dt(r))}
      pos   == IF later = {} THEN Len(sorted) + 1
               ELSE CHOOSE j \in later : \A m \in later : j <= m
  IN  SubSeq(sorted, 1, pos - 1) \o <<r>> \o SubSeq(sorted, pos, Len(sorted))

\* stable insertion: r goes after every element whose key is not greater
InsertByKey(sorted, r) ==
  LET later == {j \in DOMAIN sorted : DatetimeLess(norm_dt(r), norm_dt(sorted[j]))}
      pos   == IF later = {} THEN Len(sorted) + 1
               ELSE CHOOSE j \in later : \A m \in later : j <= m
  IN  SubSeq(sorted, 1, pos - 1) \o <<r>> \o SubSeq(sorted, pos, Len(sorted))

RECURSIVE SortedByKey(_)
\* rows.sort(key=norm_dt) when no comparison raises
SortedByKey(lst) ==
  IF lst = <<>> THEN <<>>
  ELSE InsertByKey(SortedByKey(SubSeq(lst, 1, Len(lst) - 1)), lst[Len(lst)])

\* ---------------------------------------------------------------- upstream data
AllArtists == <<"Bontan", "Eats Everything", "Joshua Butler", "Solardo">>

ArtistLists == {SubSeq(AllArtists, 1, n) : n \in 1..MaxArtists}

\* an item without a venue object (Bandsintown) or without a venues list (Ticketmaster)
NoVenueObject == <<-2>>

\* "The Warehouse"
TheWarehouse == <<84,104,101,32,87,97,114,101,104,111,117,115,101>>
\* "City Hall"
CityHall == <<67,105,116,121,32,72,97,108,108>>
\* "Barbican"
Barbican == <<66,97,114,98,105,99,97,110>>
\* "Barça" (c with cedilla, U+00E7, is a word character)
Barca == <<66,97,114,231,97>>

\* the venue an upstream item can carry: no venue object, no name, or a name
UpstreamVenues == {NoVenueObject, None, <<>>, TheWarehouse, CityHall, Barbican, Barca}

UpstreamItems == [venue : UpstreamVenues, date : Dates]

\* the record bandsintown_events yields for an item; call and n number the fetch
\* that produced the record and the record among all records appended
BandsintownRecord(artist, item, c, n) ==
  [source |-> "Bandsintown", artist |-> artist, date |-> item.date,
   venue |-> IF item.venue = NoVenueObject THEN None ELSE item.venue,
   call |-> c, n |-> n]

\* the record ticketmaster_events yields for an item
TicketmasterRecord(query, item, c, n) ==
  [source |-> "Ticketmaster", artist |-> query, date |-> item.date,
   venue |-> IF item.venue = NoVenueObject THEN <<>> ELSE item.venue,
   call |-> c, n |-> n]

\* 1 when the venue name of a yielded record holds a club word, else 0 (bookkeeping of calls)
VenueMatches(ev) == IF CLUB_REGEX_search(OrEmpty(ev.venue)) THEN 1 ELSE 0

\* a loop body that appends without asking the filter
KeptAlways(ev) == TRUE

\* if looks_like_club(ev["venue"] or ""): the record is appended
Kept(ev) == looks_like_club(OrEmpty(ev.venue))

\* ---------------------------------------------------------------- CSV
CsvHeader == <<"date", "artist", "venue", "source">>

\* csv.DictWriter writes None as the empty field
CsvRow(r) ==
  <<DateOrEmpty(r.date), r.artist, OrEmpty(r.venue), r.source>>

\* ---------------------------------------------------------------- state
VARIABLES
  pc,            \* position of main
  exitCode,      \* exit status of the process, -1 while it runs
  args,          \* the command line
  environ,       \* which credentials the environment holds
  i,             \* index of the artist of the running loop
  gen,           \* "idle", or "open" while a fetcher generator is being iterated
  k,             \* records yielded by the open generator
  rows,          \* the aggregate
  calls,         \* one entry per fetcher call, in call order
  requests,      \* the HTTP requests issued, in order
  tmTotalPages,  \* page count reported by the response of the last ticketmaster_events call, else 0
  csv            \* lines of the written file, <<>> while no file is written

vars == <<pc, exitCode, args, environ, i, gen, k, rows, calls, requests, tmTotalPages, csv>>

Init ==
  /\ pc = "parse_args"
  /\ exitCode = -1
  /\ args \in [artists : ArtistLists, include_ticketmaster : BOOLEAN, no_club_filter : BOOLEAN]
  /\ environ \in [BANDSINTOWN_APP_ID : BOOLEAN, TICKETMASTER_API_KEY : BOOLEAN]
  /\ i = 1
  /\ gen = "idle"
  /\ k = 0
  /\ rows = <<>>
  /\ calls = <<>>
  /\ requests = <<>>
  /\ tmTotalPages = 0
  /\ csv = <<>>

\* the parser defines no --no-club-filter option: parse_args() exits with status 2
ParseArgsRejects(a) == a.no_club_filter

ParseArgsError ==
  /\ pc = "parse_args"
  /\ ParseArgsRejects(args)
  /\ pc' = "exited"
  /\ exitCode' = 2
  /\ UNCHANGED <<args, environ, i, gen, k, rows, calls, requests, tmTotalPages, csv>>

ParseArgs ==
  /\ pc = "parse_args"
  /\ ~ParseArgsRejects(args)
  /\ pc' = "check_app_id"
  /\ UNCHANGED <<exitCode, args, environ, i, gen, k, rows, calls, requests, tmTotalPages, csv>>

\* if not app_id
AppIdMissing(e) == ~e.BANDSINTOWN_APP_ID

MissingAppId ==
  /\ pc = "check_app_id"
  /\ AppIdMissing(environ)
  /\ pc' = "exited"
  /\ exitCode' = 1
  /\ UNCHANGED <<args, environ, i, gen, k, rows, calls, requests, tmTotalPages, csv>>

HaveAppId ==
  /\ pc = "check_app_id"
  /\ ~AppIdMissing(environ)
  /\ pc' = "bandsintown"
  /\ i' = 1
  /\ UNCHANGED <<exitCode, args, environ, gen, k, rows, calls, requests, tmTotalPages, csv>>

NewCall(src, raised) ==
  [source |-> src, artist |-> args.artists[i], raised |-> raised, matching |-> 0, nreq |-> 1]

\* the first next() of the generator runs requests.get; it raises (timeout,
\* HTTP status, r.json()) and the except clause moves on to the next artist
RequestFails(src) ==
  /\ pc = src
  /\ gen = "idle"
  /\ i <= Len(args.artists)
  /\ requests' = Append(requests, <<src, args.artists[i]>>)
  /\ calls' = Append(calls, NewCall(src, TRUE))
  /\ i' = i + 1
  /\ UNCHANGED <<pc, exitCode, args, environ, gen, k, rows, csv>>

\* requests.get and r.json() succeed
RequestOk(src) ==
  /\ pc = src
  /\ gen = "idle"
  /\ i <= Len(args.artists)
  /\ requests' = Append(requests, <<src, args.artists[i]>>)
  /\ calls' = Append(calls, NewCall(src, FALSE))
  /\ gen' = "open"
  /\ k' = 0
  /\ UNCHANGED <<pc, exitCode, args, environ, i, rows, csv>>

\* one iteration of the inner for: the generator yields ev, the filter decides
YieldRecord(src, ev) ==
  /\ pc = src
  /\ gen = "open"
  /\ k < MaxEvents
  /\ Len(rows) < MaxRows
  /\ k' = k + 1
  /\ rows' = IF Kept(ev) THEN Append(rows, ev) ELSE rows
  /\ calls' = [calls EXCEPT ![Len(calls)].matching = @ + VenueMatches(ev)]
  /\ UNCHANGED <<pc, exitCode, args, environ, i, gen, requests, tmTotalPages, csv>>

\* producing the next record raises (an item that is no object, a venue that is
\* no object, a lineup holding a non-string): the except clause ends this artist
ProduceRaises(src) ==
  /\ pc = src
  /\ gen = "open"
  /\ calls' = [calls EXCEPT ![Len(calls)].raised = TRUE]
  /\ gen' = "idle"
  /\ k' = 0
  /\ i' = i + 1
  /\ UNCHANGED <<pc, exitCode, args, environ, rows, requests, tmTotalPages, csv>>

\* the generator is exhausted
Exhausted(src) ==
  /\ pc = src
  /\ gen = "open"
  /\ gen' = "idle"
  /\ k' = 0
  /\ i' = i + 1
  /\ UNCHANGED <<pc, exitCode, args, environ, rows, calls, requests, tmTotalPages, csv>>

BandsintownRequestFails == RequestFails("bandsintown") /\ UNCHANGED tmTotalPages

BandsintownRequestOk == RequestOk("bandsintown") /\ UNCHANGED tmTotalPages

BandsintownYield ==
  \E item \in UpstreamItems :
    YieldRecord("bandsintown",
                BandsintownRecord(args.artists[i], item, Len(calls), Len(rows) + 1))

BandsintownRaises == ProduceRaises("bandsintown")

BandsintownExhausted == Exhausted("bandsintown")

\* a gate that forgets the key test
TicketmasterActiveNoKeyTest(a, e) == a.include_ticketmaster

\* if args.include_ticketmaster: if not tm_key: WARN ... skipping TM
TicketmasterActive(a, e) == a.include_ticketmaster /\ e.TICKETMASTER_API_KEY

BandsintownLoopEnd ==
  /\ pc = "bandsintown"
  /\ gen = "idle"
  /\ i > Len(args.artists)
  /\ pc' = IF TicketmasterActive(args, environ) THEN "ticketmaster" ELSE "sort"
  /\ i' = 1
  /\ UNCHANGED <<exitCode, args, environ, gen, k, rows, calls, requests, tmTotalPages, csv>>

TicketmasterRequestFails == RequestFails("ticketmaster") /\ tmTotalPages' = 0

\* the one request of ticketmaster_events; the page block of the response is not read
TicketmasterRequestOk ==
  /\ RequestOk("ticketmaster")
  /\ tmTotalPages' \in 1..MaxTotalPages

TicketmasterYield ==
  \E item \in UpstreamItems :
    YieldRecord("ticketmaster",
                TicketmasterRecord(args.artists[i], item, Len(calls), Len(rows) + 1))

TicketmasterRaises == ProduceRaises("ticketmaster")

TicketmasterExhausted == Exhausted("ticketmaster")

TicketmasterLoopEnd ==
  /\ pc = "ticketmaster"
  /\ gen = "idle"
  /\ i > Len(args.artists)
  /\ pc' = "sort"
  /\ tmTotalPages' = 0
  /\ UNCHANGED <<exitCode, args, environ, i, gen, k, rows, calls, requests, csv>>

\* rows.sort(key=norm_dt): a TypeError of the comparison is not caught
SortFails ==
  /\ pc = "sort"
  /\ SortRaises(rows)
  /\ pc' = "exited"
  /\ exitCode' = 1
  /\ UNCHANGED <<args, environ, i, gen, k, rows, calls, requests, tmTotalPages, csv>>

Sort ==
  /\ pc = "sort"
  /\ ~SortRaises(rows)
  /\ rows' = SortedByKey(rows)
  /\ pc' = "write_csv"
  /\ UNCHANGED <<exitCode, args, environ, i, gen, k, calls, requests, tmTotalPages, csv>>

WriteCsv ==
  /\ pc = "write_csv"
  /\ csv' = <<CsvHeader>> \o [j \in DOMAIN rows |-> CsvRow(rows[j])]
  /\ pc' = "exited"
  /\ exitCode' = 0
  /\ UNCHANGED <<args, environ, i, gen, k, rows, calls, requests, tmTotalPages>>

Next ==
  \/ ParseArgsError
  \/ ParseArgs
  \/ MissingAppId
  \/ HaveAppId
  \/ BandsintownRequestFails
  \/ BandsintownRequestOk
  \/ BandsintownYield
  \/ BandsintownRaises
  \/ BandsintownExhausted
  \/ BandsintownLoopEnd
  \/ TicketmasterRequestFails
  \/ TicketmasterRequestOk
  \/ TicketmasterYield
  \/ TicketmasterRaises
  \/ TicketmasterExhausted
  \/ TicketmasterLoopEnd
  \/ SortFails
  \/ Sort
  \/ WriteCsv

Spec == Init /\ [][Next]_vars

TypeOK ==
  /\ pc \in {"parse_args", "check_app_id", "bandsintown", "ticketmaster", "sort", "write_csv", "exited"}
  /\ exitCode \in -1..2
  /\ Len(rows) <= MaxRows

\* ---------------------------------------------------------------- properties
Terminated == pc = "exited"

CsvWritten == csv # <<>>

\* the command line was accepted and the Bandsintown credential is present
CredentialCheckPassed ==
  /\ pc \notin {"parse_args", "check_app_id"}
  /\ ~ParseArgsRejects(args)
  /\ ~AppIdMissing(environ)

AfterSort == pc = "write_csv" \/ (pc = "exited" /\ exitCode = 0)

BandsintownRequests == [j \in DOMAIN args.artists |-> <<"bandsintown", args.artists[j]>>]

TicketmasterRequests == [j \in DOMAIN args.artists |-> <<"ticketmaster", args.artists[j]>>]

\* the requests of a complete run: every artist on Bandsintown, then every artist
\* on Ticketmaster when the flag is given and the key is set
ExpectedRequests ==
  BandsintownRequests \o
    (IF args.include_ticketmaster /\ environ.TICKETMASTER_API_KEY
     THEN TicketmasterRequests ELSE <<>>)

SomeCallRaised == \E c \in DOMAIN calls : calls[c].raised

\* the date of a record parses after the Z is removed
Parses(r) == ~FromIsoFormatRaises(ReplaceZ(DateOrEmpty(r.date)))

ParsedDate(r) == FromIsoFormat(ReplaceZ(DateOrEmpty(r.date)))

EqualKeys(a, b) ==
  /\ norm_dt(a).aware = norm_dt(b).aware
  /\ Instant(norm_dt(a)) = Instant(norm_dt(b))

RECURSIVE MatchingOfSuccessfulCalls(_)
\* filter-passing records yielded by the first c calls, counting only calls that did not raise
MatchingOfSuccessfulCalls(c) ==
  IF c = 0 THEN 0
  ELSE MatchingOfSuccessfulCalls(c - 1) + (IF calls[c].raised THEN 0 ELSE calls[c].matching)

RowsOfCall(c) == {j \in DOMAIN rows : rows[j].call = c}

\* C1 (as claimed): when a fetch has raised, the run still requests every later
\* artist and every artist of the other active source, writes the CSV and exits 0.
C1_FailureDoesNotStopRun ==
  (Terminated /\ CredentialCheckPassed /\ SomeCallRaised) =>
    /\ requests = ExpectedRequests
    /\ CsvWritten
    /\ exitCode = 0

\* C2 (as claimed): no record of the aggregate or of the CSV was produced by a
\* fetcher call that raised.
C2_FailedFetchContributesNothing ==
  /\ \A j \in DOMAIN rows : ~calls[rows[j].call].raised
  /\ CsvWritten => Len(csv) = 1 + MatchingOfSuccessfulCalls(Len(calls))

\* C3 (as claimed): on an accepted command line, a missing credential of an
\* active source (the Bandsintown id, or the Ticketmaster key under
\* --include-ticketmaster) ends the run with exit code 1, without any request
\* and without a CSV.
C3_MissingCredentialIsFatal ==
  (/\ Terminated
   /\ ~ParseArgsRejects(args)
   /\ \/ ~environ.BANDSINTOWN_APP_ID
      \/ (args.include_ticketmaster /\ ~environ.TICKETMASTER_API_KEY)) =>
    /\ exitCode = 1
    /\ requests = <<>>
    /\ ~CsvWritten

\* C3 (amended): a missing Bandsintown id is fatal: no request is issued, no CSV
\* is written and the exit code is 1 (2 when the parser had already rejected the
\* command line).  A missing Ticketmaster key under --include-ticketmaster is
\* not fatal: no Ticketmaster request is ever issued, and the run still requests
\* every artist from Bandsintown before it ends.
C3_OnlyBandsintownCredentialIsFatal ==
  /\ ~environ.BANDSINTOWN_APP_ID =>
       /\ requests = <<>>
       /\ ~CsvWritten
       /\ Terminated => exitCode = (IF ParseArgsRejects(args) THEN 2 ELSE 1)
  /\ ~environ.TICKETMASTER_API_KEY =>
       \A q \in DOMAIN requests : requests[q][1] # "ticketmaster"
  /\ (/\ Terminated
      /\ CredentialCheckPassed
      /\ args.include_ticketmaster
      /\ ~environ.TICKETMASTER_API_KEY) => requests = BandsintownRequests

C3_Witness ==
  /\ Terminated
  /\ CredentialCheckPassed
  /\ args.include_ticketmaster
  /\ ~environ.TICKETMASTER_API_KEY
  /\ Len(requests) = MaxArtists
  /\ exitCode = 0
  /\ Len(csv) > 1

\* C4 (as claimed): after the sort, for every a before b either both dates parse
\* and date(a) <= date(b), or the date of b is absent or unparsable.
C4_UnparsableNeverBeforeParsable ==
  AfterSort =>
    \A a \in DOMAIN rows : \A b \in DOMAIN rows :
      a < b =>
        \/ /\ Parses(rows[a])
           /\ Parses(rows[b])
           /\ Instant(ParsedDate(rows[a])) <= Instant(ParsedDate(rows[b]))
        \/ ~Parses(rows[b])

\* C4 (amended): after the sort, for every a before b either both dates parse
\* and date(a) <= date(b), or the date of b is absent or unparsable, or the date
\* of b parses to the maximum representable datetime (the key that absent and
\* unparsable dates get, so that such a record ties with them).
C4_SortedByParsedDate ==
  AfterSort =>
    \A a \in DOMAIN rows : \A b \in DOMAIN rows :
      a < b =>
        \/ /\ Parses(rows[a])
           /\ Parses(rows[b])
           /\ Instant(ParsedDate(rows[a])) <= Instant(ParsedDate(rows[b]))
        \/ ~Parses(rows[b])
        \/ (Parses(rows[b]) /\ ParsedDate(rows[b]) = DatetimeMax)

\* the sort moved a parseable date in front of a record appended earlier
C4_Witness ==
  /\ AfterSort
  /\ \E a \in DOMAIN rows : \E b \in DOMAIN rows :
       /\ a < b
       /\ rows[a].n > rows[b].n
       /\ Parses(rows[a])
       /\ ParsedDate(rows[a]) # DatetimeMax

\* C5: every record of the aggregate and of the CSV has a venue name that
\* looks_like_club accepts, never an absent or empty one, and every yielded
\* record whose venue name holds a club word is in the aggregate.
C5_ClubFilter ==
  /\ \A j \in DOMAIN rows :
       /\ looks_like_club(rows[j].venue)
       /\ rows[j].venue \notin {None, <<>>}
  /\ \A c \in DOMAIN calls : Cardinality(RowsOfCall(c)) = calls[c].matching
  /\ \A j \in DOMAIN csv : j > 1 => (csv[j][3] # <<>> /\ looks_like_club(csv[j][3]))

\* the open generator has yielded two records: the filter kept one and dropped one
C5_Witness ==
  /\ gen = "open"
  /\ k = 2
  /\ calls[Len(calls)].matching = 1
  /\ Cardinality(RowsOfCall(Len(calls))) = 1

\* C6 (as claimed): --no-club-filter is a flag of the program: a run given it
\* and the Bandsintown id completes with exit code 0 and a written CSV.
C6_NoClubFilterFlagAccepted ==
  (Terminated /\ args.no_club_filter /\ environ.BANDSINTOWN_APP_ID) =>
    /\ exitCode = 0
    /\ CsvWritten
    /\ Len(requests) >= Len(args.artists)

\* C7 (as claimed): a ticketmaster_events call that ends normally has issued
\* min(reported total pages, 4) page requests.
C7_PageRequestsAreMinOfTotalAndCap ==
  (/\ pc = "ticketmaster"
   /\ gen = "idle"
   /\ tmTotalPages > 0
   /\ ~calls[Len(calls)].raised) =>
    calls[Len(calls)].nreq = (IF tmTotalPages < 4 THEN tmTotalPages ELSE 4)

\* C8 (as claimed): the written CSV is the header followed by one row per record
\* of the sorted aggregate, and the number of data rows is the number of
\* filter-passing records of the fetches that succeeded.
C8_OneRowPerRecordOfSuccessfulFetches ==
  CsvWritten =>
    /\ csv[1] = CsvHeader
    /\ Len(csv) = 1 + Len(rows)
    /\ \A j \in DOMAIN rows : csv[j + 1] = CsvRow(rows[j])
    /\ Len(rows) = MatchingOfSuccessfulCalls(Len(calls))

\* C9: the requests are issued in the fixed order (every artist on Bandsintown,
\* then every artist on Ticketmaster), records are appended in fetch order, and
\* after the sort two records with equal keys stand in the order of their fetch.
C9_FixedOrderAndStableSort ==
  /\ Len(requests) <= Len(ExpectedRequests)
  /\ requests = SubSeq(ExpectedRequests, 1, Len(requests))
  /\ Len(calls) = Len(requests)
  /\ ~AfterSort =>
       \A a \in DOMAIN rows : rows[a].n = a /\ (a > 1 => rows[a - 1].call <= rows[a].call)
  /\ AfterSort =>
       \A a \in DOMAIN rows : \A b \in DOMAIN rows :
         (a < b /\ EqualKeys(rows[a], rows[b])) => rows[a].n < rows[b].n

\* two records of different date text tie, one from each source, after the sort
C9_Witness ==
  /\ AfterSort
  /\ Len(requests) = 2 * Len(args.artists)
  /\ \E a \in DOMAIN rows : \E b \in DOMAIN rows :
       /\ a < b
       /\ EqualKeys(rows[a], rows[b])
       /\ rows[a].date # rows[b].date
       /\ rows[a].source # rows[b].source

\* C10 (as claimed): once the credential check has passed the run ends with a
\* written CSV and exit code 0, whatever dates the records carry.
C10_AlwaysExitsZero ==
  (Terminated /\ CredentialCheckPassed) => (exitCode = 0 /\ CsvWritten)

====
